---- MODULE Spec2Model ----
(***************************************************************************)
(* Model of the spending-analysis workflow of budget_coach.py: the         *)
(* LangGraph state graph `budget_coach` with the nodes                     *)
(* analyze_transactions, generate_summary and send_alert, the conditional  *)
(* edge should_send_alert, and the shared BudgetCoachState.                *)
(*                                                                         *)
(* Amounts are Python floats.  They are modelled as a binary floating      *)
(* point format of reduced width: a value is a natural number of quanta    *)
(* of 2^-FracBits dollars, and every arithmetic result is rounded to       *)
(* MantBits significant bits, ties to even, as IEEE-754 does with 53.      *)
(* Only non-negative amounts and budgets are drawn.  The fields date,      *)
(* description and merchant of a Transaction take no part in the workflow  *)
(* logic and are left out; the text of a prompt is modelled by the values  *)
(* it encodes, the text of a reply by an opaque token.                     *)
(***************************************************************************)
EXTENDS Integers, Sequences, FiniteSets, TLC

\* ---- bounds of the model -------------------------------------------------
MaxTx == 4
MaxQuestions == 2
MaxChatTx == 2

\* ---- the reduced float format --------------------------------------------
MantBits == 5
FracBits == 4

RECURSIVE Pow2(_)
Pow2(n) == IF n = 0 THEN 1 ELSE 2 * Pow2(n - 1)

\* one dollar, in quanta
Dollar == Pow2(FracBits)

RECURSIVE Exponent(_, _, _)
Exponent(num, den, e) ==
    IF num < den * Pow2(MantBits + e) THEN e ELSE Exponent(num, den, e + 1)

\* num/den quanta rounded to MantBits significant bits, ties to even
\* (functions of the operands, so that each is evaluated once: n is the
\* numerator, unit the denominator times the weight of the last kept bit)
FRound(num, den) ==
    LET Nearest[n \in Nat, unit \in Nat] ==
            LET m   == n \div unit
                rem == n - m * unit
                up  == (2 * rem > unit) \/ (2 * rem = unit /\ m % 2 = 1)
            IN  IF up THEN m + 1 ELSE m
        Scaled[n \in Nat, d \in Nat, e \in Nat] ==
            Nearest[n, d * Pow2(e)] * Pow2(e)
        Rounded[n \in Nat, d \in Nat] == Scaled[n, d, Exponent(n, d, 0)]
    IN  Rounded[num, den]

FAdd(a, b) == FRound(a + b, 1)

FMul(a, b) == FRound(a * b, Dollar)

\* the float literal 0.8: 0.8 dollars rounded to the format (0.8125)
AlertFraction == FRound(4 * Dollar, 5)

\* ---- inputs ----------------------------------------------------------------
Categories == {"Dining", "Shopping"}
Amounts    == {1 * Dollar, 32 * Dollar}
Budgets    == {0, 40 * Dollar, 100 * Dollar}
\* texts are sequences of characters
Replies    == {<<"$", "5", ".">>, <<"o", "k", "!">>}
Prompts    == {<<"h", "i", "?">>, <<"$", "5">>}
SystemPrompt == <<"c", "o", "a", "c", "h">>
Fallback     == <<"a", "n", "a", "l", "y", "z", "i", "n", "g">>

Transaction == [amount : Amounts, category : Categories]

RECURSIVE SeqsUpTo(_, _)
SeqsUpTo(S, n) ==
    IF n = 0 THEN {<<>>}
    ELSE LET shorter == SeqsUpTo(S, n - 1)
         IN  shorter \cup {Append(s, x) : s \in {t \in shorter : Len(t) = n - 1}, x \in S}

\* a message's content: its text and, for a reply of the language model,
\* the step whose prompt it answers ("" for text the caller wrote)
Content(reply_to, text) == [reply_to |-> reply_to, text |-> text]

SystemMessage(content) == [role |-> "system", content |-> content]
HumanMessage(content)  == [role |-> "human", content |-> content]
AIMessage(content)     == [role |-> "ai", content |-> content]

\* the logs a caller supplies: none (example_budget_coach.py) or the
\* system message and the user's prompt (BudgetCoach.get_response)
\* the messages BudgetCoach.get_response passes to graph.invoke
SeedMessages(prompt) ==
    <<SystemMessage(Content("", SystemPrompt)), HumanMessage(Content("", prompt))>>

InitialLogs == {<<>>} \cup {SeedMessages(prompt) : prompt \in Prompts}

\* ---- pure helpers ----------------------------------------------------------
Last(s) == s[Len(s)]
Front(s) == SubSeq(s, 1, Len(s) - 1)

\* Python's sum(): left to right, starting from the integer 0, each partial
\* sum rounded to the float format
sum_overwrite(xs) == IF xs = <<>> THEN 0 ELSE Last(xs)
RECURSIVE sum(_)
sum(xs) == IF xs = <<>> THEN 0 ELSE FAdd(sum(Front(xs)), Last(xs))

AmountsOf(txs) == [i \in 1..Len(txs) |-> txs[i].amount]

\* data['transactions'][-3:]
Last3_first(s) == SubSeq(s, 1, IF Len(s) < 3 THEN Len(s) ELSE 3)
Last3(s) == SubSeq(s, IF Len(s) > 3 THEN Len(s) - 2 ELSE 1, Len(s))

NewGroup(category) ==
    [category |-> category, total |-> 0, count |-> 0, transactions |-> <<>>]

\* an entry of the dict category_spending
CategoryData ==
    [category : Categories, total : Nat, count : Nat, transactions : Seq(Transaction)]

AddToGroup(data, t) ==
    [data EXCEPT !.total = FAdd(@, t.amount),
                 !.count = @ + 1,
                 !.transactions = Append(@, t)]

\* the dict category_spending, in insertion order of its keys
RECURSIVE GroupByCategory_split(_)
GroupByCategory_split(txs) ==
    IF txs = <<>> THEN <<>>
    ELSE Append(GroupByCategory_split(Front(txs)),
                AddToGroup(NewGroup(Last(txs).category), Last(txs)))
RECURSIVE GroupByCategory(_)
GroupByCategory(txs) ==
    IF txs = <<>> THEN <<>>
    ELSE LET Add[prev \in Seq(CategoryData), t \in Transaction] ==
                 LET idx == {i \in 1..Len(prev) : prev[i].category = t.category}
                 IN  IF idx = {}
                     THEN Append(prev, AddToGroup(NewGroup(t.category), t))
                     ELSE LET i == CHOOSE j \in idx : TRUE
                          IN  [prev EXCEPT ![i] = AddToGroup(@, t)]
         IN  Add[GroupByCategory(Front(txs)), Last(txs)]

\* one outbound llm.invoke: the step that makes it, the values its prompt
\* encodes, and whether the call returned (ok) or raised
LlmCall(step, category, total, count, recent, budget, ok) ==
    [step |-> step, category |-> category, total |-> total, count |-> count,
     recent |-> recent, budget |-> budget, ok |-> ok]

InsightCall(data, ok) ==
    LlmCall("analyze_transactions", data.category, data.total, data.count,
            Last3(data.transactions), 0, ok)

SpendingInsight(data, reply) ==
    [category |-> data.category, total_spent |-> data.total,
     num_transactions |-> data.count, snarky_comment |-> reply,
     helpful_suggestion |-> <<>>]

should_send_alert_always(total_spent, budget) == "send_alert"
should_send_alert_ge(total_spent, budget) ==
    IF total_spent >= FMul(budget, AlertFraction) THEN "send_alert" ELSE "END"
should_send_alert(total_spent, budget) ==
    IF total_spent > FMul(budget, AlertFraction) THEN "send_alert" ELSE "END"

\* the unconditional edges of the graph, and the hand-over from
\* generate_summary to its conditional edge
Edge_dangling(node) ==
    CASE node = "START"                -> "analyze_transactions"
      [] node = "analyze_transactions" -> "generate_summary"
      [] node = "generate_summary"     -> "should_send_alert"
      [] node = "send_alert"           -> "send_alert_done"
Edge_skip(node) ==
    CASE node = "START"                -> "analyze_transactions"
      [] node = "analyze_transactions" -> "generate_summary"
      [] node = "generate_summary"     -> "send_alert"
      [] node = "send_alert"           -> "END"
Edge(node) ==
    CASE node = "START"                -> "analyze_transactions"
      [] node = "analyze_transactions" -> "generate_summary"
      [] node = "generate_summary"     -> "should_send_alert"
      [] node = "send_alert"           -> "END"

\* where the run goes when llm.invoke raises inside a node: no node catches
\* the exception, so it leaves graph.invoke and the run is over
Raise_swallowed(node) == Edge(node)
Raise(node) == "FAILED"

\* the add_messages reducer of MessagesState, for messages without ids
add_messages_replace(left, right) == right
add_messages(left, right) == left \o right

\* the partial updates the nodes return
analyze_update(new_insights) == [insights |-> new_insights]

summary_update(total_spent, reply) ==
    [current_month_spending |-> total_spent,
     messages |-> <<AIMessage(Content("generate_summary", reply))>>]

alert_update_spending(reply) ==
    [current_month_spending |-> 0,
     messages |-> <<AIMessage(Content("send_alert", reply))>>]
alert_update(reply) ==
    [messages |-> <<AIMessage(Content("send_alert", reply))>>]

\* the value of one state key after a node's update is merged: messages go
\* through their reducer, every other key the update holds is overwritten
Merged(key, old, update) ==
    IF key \in DOMAIN update
    THEN IF key = "messages" THEN add_messages(old, update[key]) ELSE update[key]
    ELSE old

\* ---- text formatting ------------------------------------------------------
\* str.replace: every non-overlapping occurrence of old, from the left
RECURSIVE replace(_, _, _)
replace(text, old, new) ==
    IF Len(text) < Len(old) THEN text
    ELSE IF SubSeq(text, 1, Len(old)) = old
         THEN new \o replace(SubSeq(text, Len(old) + 1, Len(text)), old, new)
         ELSE <<text[1]>> \o replace(Tail(text), old, new)

\* the spacing BudgetCoach.get_response applies to the last message
FormatResponse(content) ==
    LET dollars == replace(replace(content, <<"$">>, <<" ", "$">>), <<"$", " ">>, <<"$">>)
    IN  replace(replace(replace(dollars, <<".">>, <<".", " ">>),
                        <<"!">>, <<"!", " ">>),
                <<"?">>, <<"?", " ">>)

\* result["messages"][-1]
LastMessage_first(msgs) == msgs[1]
LastMessage(msgs) == msgs[Len(msgs)]

Digits == {"0", "1", "2", "3", "4", "5", "6", "7", "8", "9"}
Spaces == {" "}
IsDigit(c) == c \in Digits
IsSpace(c) == c \in Spaces

\* the number of leading characters of text that belong to chars
RECURSIVE Run(_, _)
Run(text, chars) ==
    IF text # <<>> /\ text[1] \in chars THEN 1 + Run(Tail(text), chars) ELSE 0

Drop(text, n) == SubSeq(text, n + 1, Len(text))

\* re.sub(r'\s+', ' ', message)
RECURSIVE CollapseSpaces(_)
CollapseSpaces(text) ==
    IF text = <<>> THEN <<>>
    ELSE IF IsSpace(text[1])
         THEN <<" ">> \o CollapseSpaces(Drop(text, Run(text, Spaces)))
         ELSE <<text[1]>> \o CollapseSpaces(Tail(text))

\* re.sub(r'(\d+\.?\d*)', r' \1 ', message)
RECURSIVE SpaceNumbers(_)
SpaceNumbers(text) ==
    IF text = <<>> THEN <<>>
    ELSE IF IsDigit(text[1])
         THEN LET whole == Run(text, Digits)
                  point == IF Len(text) > whole /\ text[whole + 1] = "." THEN 1 ELSE 0
                  frac  == Run(Drop(text, whole + point), Digits)
                  n     == whole + point + frac
              IN  <<" ">> \o SubSeq(text, 1, n) \o <<" ">> \o SpaceNumbers(Drop(text, n))
         ELSE <<text[1]>> \o SpaceNumbers(Tail(text))

\* re.sub(r'([.!?])([^\s])', r'\1 \2', message)
RECURSIVE SpacePunctuation(_)
SpacePunctuation(text) ==
    IF text = <<>> THEN <<>>
    ELSE IF Len(text) >= 2 /\ text[1] \in {".", "!", "?"} /\ ~IsSpace(text[2])
         THEN <<text[1], " ", text[2]>> \o SpacePunctuation(Drop(text, 2))
         ELSE <<text[1]>> \o SpacePunctuation(Tail(text))

\* str.strip
RECURSIVE strip(_)
strip(text) ==
    IF text # <<>> /\ IsSpace(text[1]) THEN strip(Tail(text))
    ELSE IF text # <<>> /\ IsSpace(text[Len(text)]) THEN strip(Front(text))
    ELSE text

\* format_message of streamlit_budget_coach.py
format_message(message) ==
    LET escaped == replace(message, <<"$">>, <<"\\", "$">>)
    IN  strip(CollapseSpaces(SpacePunctuation(SpaceNumbers(CollapseSpaces(escaped)))))

\* ---- state -----------------------------------------------------------------
VARIABLES
    transactions,            \* state["transactions"]
    monthly_budget,          \* state["monthly_budget"]
    insights,                \* state["insights"]
    current_month_spending,  \* state["current_month_spending"]
    messages,                \* state["messages"]
    state_keys,              \* the keys present in the state dict
    pc,                      \* the node (or edge) the graph runs next
    result,                  \* what graph.invoke has handed to its caller
    input_messages,          \* the "messages" the caller passed to invoke
    steps,                   \* history: the steps run so far, in order
    calls,                   \* history: the llm.invoke calls made, in order
    session_messages,        \* st.session_state.messages
    coach_budget,            \* BudgetCoach.monthly_budget
    response                 \* the text get_response returned last, with the
                             \* message it was taken from (history)

vars == <<transactions, monthly_budget, insights, current_month_spending,
          messages, state_keys, pc, result, input_messages, steps, calls,
          session_messages, coach_budget, response>>

ChatFields == <<session_messages, coach_budget, response>>

NoResponse == [text |-> <<>>, source |-> AIMessage(Content("", <<>>))]

\* the graph merges the update a node returned into the state
MergeUpdate(update) ==
    /\ transactions' = Merged("transactions", transactions, update)
    /\ monthly_budget' = Merged("monthly_budget", monthly_budget, update)
    /\ insights' = Merged("insights", insights, update)
    /\ current_month_spending' =
           Merged("current_month_spending", current_month_spending, update)
    /\ messages' = Merged("messages", messages, update)
    /\ state_keys' = state_keys \cup DOMAIN update

StateFields == <<transactions, monthly_budget, insights, current_month_spending,
                 messages, state_keys>>

Init ==
    /\ transactions \in SeqsUpTo(Transaction, MaxTx)
    /\ monthly_budget \in Budgets
    /\ input_messages \in InitialLogs
    /\ messages = <<>>
    /\ insights = <<>>
    /\ current_month_spending = 0
    /\ state_keys = {}
    /\ pc = "START"
    /\ result = "pending"
    /\ steps = <<>>
    /\ calls = <<>>
    /\ session_messages = <<>>
    /\ coach_budget = monthly_budget
    /\ response = NoResponse

\* graph.invoke(input): the input is written to the state, then the edge
\* from START is followed
invoke ==
    /\ pc = "START"
    /\ messages' = add_messages(messages, input_messages)
    /\ state_keys' = {"messages", "transactions", "monthly_budget"}
    /\ pc' = Edge("START")
    /\ UNCHANGED <<transactions, monthly_budget, insights,
                   current_month_spending, result, input_messages, steps, calls>>
    /\ UNCHANGED ChatFields

analyze_transactions ==
    /\ pc = "analyze_transactions"
    /\ steps' = Append(steps, "analyze_transactions")
    /\ \E category_spending \in {GroupByCategory(transactions)} :
       LET n == Len(category_spending)
       IN  \/ \E replies \in [1..n -> Replies] :
                /\ calls' = calls \o
                       [i \in 1..n |-> InsightCall(category_spending[i], TRUE)]
                /\ MergeUpdate(analyze_update(
                       [i \in 1..n |-> SpendingInsight(category_spending[i], replies[i])]))
                /\ pc' = Edge("analyze_transactions")
                /\ UNCHANGED result
           \/ \E k \in 0..(n - 1) :
                \* the first k calls return, call k+1 raises
                /\ calls' = calls \o
                       [i \in 1..(k + 1) |-> InsightCall(category_spending[i], i <= k)]
                /\ pc' = Raise("analyze_transactions")
                /\ result' = "raised"
                /\ UNCHANGED StateFields
    /\ UNCHANGED input_messages
    /\ UNCHANGED ChatFields

generate_monthly_summary ==
    /\ pc = "generate_summary"
    /\ steps' = Append(steps, "generate_summary")
    /\ \E total_spent \in {sum(AmountsOf(transactions))} :
       LET budget == monthly_budget
       IN  \/ \E reply \in Replies :
                /\ calls' = Append(calls,
                       LlmCall("generate_summary", "", total_spent, 0, <<>>, budget, TRUE))
                /\ MergeUpdate(summary_update(total_spent, reply))
                /\ pc' = Edge("generate_summary")
                /\ UNCHANGED result
           \/ /\ calls' = Append(calls,
                       LlmCall("generate_summary", "", total_spent, 0, <<>>, budget, FALSE))
              /\ pc' = Raise("generate_summary")
              /\ result' = "raised"
              /\ UNCHANGED StateFields
    /\ UNCHANGED input_messages
    /\ UNCHANGED ChatFields

\* the conditional edge out of generate_summary
conditional_edge ==
    /\ pc = "should_send_alert"
    /\ steps' = Append(steps, "should_send_alert")
    /\ pc' = should_send_alert(current_month_spending, monthly_budget)
    /\ result' = IF pc' = "END" THEN "returned" ELSE result
    /\ UNCHANGED <<transactions, monthly_budget, insights, current_month_spending,
                   messages, state_keys, input_messages, calls>>
    /\ UNCHANGED ChatFields

send_spending_alert ==
    /\ pc = "send_alert"
    /\ steps' = Append(steps, "send_alert")
    /\ LET total_spent == current_month_spending
           budget == monthly_budget
       IN  \/ \E reply \in Replies :
                /\ calls' = Append(calls,
                       LlmCall("send_alert", "", total_spent, 0, <<>>, budget, TRUE))
                /\ MergeUpdate(alert_update(reply))
                /\ pc' = Edge("send_alert")
                /\ result' = "returned"
           \/ /\ calls' = Append(calls,
                       LlmCall("send_alert", "", total_spent, 0, <<>>, budget, FALSE))
              /\ pc' = Raise("send_alert")
              /\ result' = "raised"
              /\ UNCHANGED StateFields
    /\ UNCHANGED input_messages
    /\ UNCHANGED ChatFields

Next ==
    \/ invoke
    \/ analyze_transactions
    \/ generate_monthly_summary
    \/ conditional_edge
    \/ send_spending_alert

Spec == Init /\ [][Next]_vars

\* ---- the chat session of streamlit_budget_coach.py ---------------------------
\* The session holds one BudgetCoach over a fixed transaction list.  Of the
\* page's controls the chat input and the budget field are modelled.
ChatBatches == SeqsUpTo(Transaction, MaxChatTx)

UserMessage(content)      == [role |-> "user", content |-> content]
AssistantMessage(content) == [role |-> "assistant", content |-> content]

Asked == Cardinality({i \in 1..Len(session_messages) :
                          session_messages[i].role = "user"})

ChatInit ==
    /\ transactions \in ChatBatches
    /\ coach_budget \in Budgets
    /\ monthly_budget = coach_budget
    /\ session_messages = <<>>
    /\ response = NoResponse
    /\ input_messages = <<>>
    /\ messages = <<>>
    /\ insights = <<>>
    /\ current_month_spending = 0
    /\ state_keys = {}
    /\ pc = "IDLE"
    /\ result = "pending"
    /\ steps = <<>>
    /\ calls = <<>>

\* the sidebar's budget field: a changed value is stored in the coach
set_budget ==
    /\ pc \in {"IDLE", "FAILED"}
    /\ \E budget \in Budgets \ {coach_budget} : coach_budget' = budget
    /\ UNCHANGED <<transactions, monthly_budget, insights, current_month_spending,
                   messages, state_keys, pc, result, input_messages, steps, calls,
                   session_messages, response>>

\* the chat input handler up to the start of graph.invoke: the prompt is
\* added to the session's messages and get_response builds the input of a
\* new run from the coach's transactions and budget
chat_input ==
    /\ pc \in {"IDLE", "FAILED"}
    /\ Asked < MaxQuestions
    /\ \E prompt \in Prompts :
          /\ session_messages' = Append(session_messages, UserMessage(prompt))
          /\ input_messages' = SeedMessages(prompt)
    /\ monthly_budget' = coach_budget
    /\ messages' = <<>>
    /\ insights' = <<>>
    /\ current_month_spending' = 0
    /\ state_keys' = {}
    /\ steps' = <<>>
    /\ calls' = <<>>
    /\ result' = "pending"
    /\ pc' = "START"
    /\ UNCHANGED <<transactions, coach_budget, response>>

\* get_response after graph.invoke has returned, and the rest of the chat
\* input handler: the last message of the result is formatted and returned,
\* and the session keeps it as the assistant's message; the result is dropped
get_response_return ==
    /\ pc = "END"
    /\ result = "returned"
    /\ response' =
           IF messages # <<>>
           THEN [text |-> FormatResponse(LastMessage(messages).content.text),
                 source |-> LastMessage(messages)]
           ELSE [text |-> Fallback, source |-> NoResponse.source]
    /\ session_messages' =
           Append(session_messages, AssistantMessage(format_message(response'.text)))
    /\ messages' = <<>>
    /\ insights' = <<>>
    /\ current_month_spending' = 0
    /\ state_keys' = {}
    /\ steps' = <<>>
    /\ calls' = <<>>
    /\ input_messages' = <<>>
    /\ result' = "pending"
    /\ pc' = "IDLE"
    /\ UNCHANGED <<transactions, monthly_budget, coach_budget>>

ChatNext ==
    \/ set_budget
    \/ chat_input
    \/ invoke
    \/ analyze_transactions
    \/ generate_monthly_summary
    \/ conditional_edge
    \/ send_spending_alert
    \/ get_response_return

ChatSpec == ChatInit /\ [][ChatNext]_vars

\* graph.invoke runs synchronously in one thread: whenever a step of the run
\* is enabled, the run takes it
LiveSpec == Spec /\ WF_vars(Next)

\* ---- shared vocabulary of the properties -----------------------------------
FullRun == <<"analyze_transactions", "generate_summary", "should_send_alert", "send_alert">>

IsPrefix(s, t) == Len(s) <= Len(t) /\ SubSeq(t, 1, Len(s)) = s

Occurrences(s, x) == Cardinality({i \in 1..Len(s) : s[i] = x})

\* the conditional edge has been evaluated / has selected the alert step
Decided == Occurrences(steps, "should_send_alert") > 0
AlertSelected ==
    Decided /\ (pc = "send_alert" \/ Occurrences(steps, "send_alert") > 0)

\* C1: the steps of a run execute in the order analyze_transactions,
\* generate_summary, should_send_alert and then either send_alert and END or
\* END at once; no step runs twice, none is skipped, and the only branch is
\* the one after the summary.
C1_StepOrder ==
    /\ IsPrefix(steps, FullRun)
    /\ pc \in {"START", "analyze_transactions"} => steps = <<>>
    /\ pc = "generate_summary" => steps = SubSeq(FullRun, 1, 1)
    /\ pc = "should_send_alert" => steps = SubSeq(FullRun, 1, 2)
    /\ pc = "send_alert" => steps = SubSeq(FullRun, 1, 3)
    /\ pc = "END" => steps \in {SubSeq(FullRun, 1, 3), FullRun}
    /\ pc = "FAILED" => steps # <<>> /\ Last(steps) # "should_send_alert"

C1_Witness == pc = "END" /\ steps = FullRun

\* C2: the conditional edge selects the alert step exactly when
\* current_month_spending > 0.8 * monthly_budget; spending of exactly four
\* fifths of the budget selects END; with a budget of 0 every positive
\* spending selects the alert and spending 0 selects END.
C2_AlertDecision ==
    Decided =>
        /\ AlertSelected <=>
              current_month_spending > FMul(monthly_budget, AlertFraction)
        /\ 5 * current_month_spending = 4 * monthly_budget => ~AlertSelected
        /\ monthly_budget = 0 => (AlertSelected <=> current_month_spending > 0)

C2_Witness ==
    /\ Decided
    /\ monthly_budget > 0
    /\ 5 * current_month_spending = 4 * monthly_budget
    /\ pc = "END"

\* C3: the alert step runs at most once in a run, only after the conditional
\* edge, evaluated on the current_month_spending the summary step wrote, has
\* selected it; when the edge selects END the alert step never runs and the
\* summary is the last entry of the log.
C3_AlertOnlyWhenSelected ==
    /\ Occurrences(steps, "send_alert") <= 1
    /\ Cardinality({i \in 1..Len(calls) : calls[i].step = "send_alert"}) <= 1
    /\ Occurrences(steps, "send_alert") > 0 =>
          /\ SubSeq(steps, 1, 3) = SubSeq(FullRun, 1, 3)
          /\ "current_month_spending" \in state_keys
          /\ current_month_spending > FMul(monthly_budget, AlertFraction)
    /\ (Decided /\ ~(current_month_spending > FMul(monthly_budget, AlertFraction))) =>
          /\ pc = "END"
          /\ Occurrences(steps, "send_alert") = 0
          /\ \A i \in 1..Len(calls) : calls[i].step # "send_alert"
          /\ Len(messages) = Len(input_messages) + 1
          /\ Last(messages).content.reply_to = "generate_summary"

C3_Witness ==
    /\ pc = "END"
    /\ steps = SubSeq(FullRun, 1, 3)
    /\ current_month_spending > 0

\* ---- the aggregates, stated from the transaction batch ----------------------
CategoriesOf(txs) == {txs[i].category : i \in 1..Len(txs)}

\* the transactions of one category, in input order
RECURSIVE OfCategory(_, _)
OfCategory(txs, c) ==
    IF txs = <<>> THEN <<>>
    ELSE IF txs[1].category = c
         THEN <<txs[1]>> \o OfCategory(Tail(txs), c)
         ELSE OfCategory(Tail(txs), c)

\* the float total of the amounts, added in input order from the first on
RECURSIVE TotalFrom(_, _, _)
TotalFrom(txs, i, acc) ==
    IF i > Len(txs) THEN acc ELSE TotalFrom(txs, i + 1, FAdd(acc, txs[i].amount))
TotalOfAmounts(txs) == TotalFrom(txs, 1, 0)

RECURSIVE SumOfCounts(_)
SumOfCounts(ins) ==
    IF ins = <<>> THEN 0 ELSE ins[1].num_transactions + SumOfCounts(Tail(ins))

InsightTotals == [i \in 1..Len(insights) |-> insights[i].total_spent]

InsightsWritten == "insights" \in state_keys
SpendingWritten == "current_month_spending" \in state_keys

\* C4: after analyze_transactions the total_spent of the insights add up to
\* the sum of the amounts of the input transactions, and their
\* num_transactions add up to the number of input transactions.
C4_GroupingConservesTotal ==
    InsightsWritten =>
        /\ sum(InsightTotals) = TotalOfAmounts(transactions)
        /\ SumOfCounts(insights) = Len(transactions)

\* C5: analyze_transactions produces exactly one insight per distinct
\* category of the batch: as many insights as distinct categories, no two of
\* one category, and an insight for the category of every transaction.
C5_OneInsightPerCategory ==
    InsightsWritten =>
        /\ Len(insights) = Cardinality(CategoriesOf(transactions))
        /\ \A i, j \in 1..Len(insights) :
              insights[i].category = insights[j].category => i = j
        /\ \A k \in 1..Len(transactions) :
              \E i \in 1..Len(insights) :
                  insights[i].category = transactions[k].category
        /\ \A i \in 1..Len(insights) :
              insights[i].category \in CategoriesOf(transactions)

C5_Witness ==
    /\ InsightsWritten
    /\ Len(insights) = 2
    /\ Len(transactions) >= 3

\* C6: the recent items a category's prompt lists are the last 3 transactions
\* of that category (all of them when fewer than 3) in input order, so their
\* number is min(3, transaction count of the category).
C6_RecentItems ==
    \A i \in 1..Len(calls) :
        calls[i].step = "analyze_transactions" =>
            LET all == OfCategory(transactions, calls[i].category)
                n   == Len(all)
                k   == IF n < 3 THEN n ELSE 3
            IN  /\ calls[i].count = n
                /\ Len(calls[i].recent) = k
                /\ \A j \in 1..k : calls[i].recent[j] = all[n - k + j]

C6_Witness ==
    \E i \in 1..Len(calls) :
        /\ calls[i].step = "analyze_transactions"
        /\ calls[i].count > 3
        /\ calls[i].recent # SubSeq(OfCategory(transactions, calls[i].category), 1, 3)

\* C7: from the completion of generate_monthly_summary on,
\* current_month_spending is the sum of the amounts of the input
\* transactions; the conditional edge and the alert step read this value, and
\* neither runs before it is written.
C7_SpendingIsTotal ==
    /\ SpendingWritten =>
          current_month_spending = TotalOfAmounts(transactions)
    /\ ~SpendingWritten =>
          /\ current_month_spending = 0
          /\ Occurrences(steps, "should_send_alert") = 0
          /\ Occurrences(steps, "send_alert") = 0
          /\ pc \notin {"should_send_alert", "send_alert", "END"}
    /\ \A i \in 1..Len(calls) :
          calls[i].step = "send_alert" =>
              calls[i].total = TotalOfAmounts(transactions)

C7_Witness ==
    /\ pc = "END"
    /\ Occurrences(steps, "send_alert") = 1
    /\ Len(transactions) >= 3
    /\ current_month_spending = 34 * Dollar

\* ---- the conversation log and the outbound calls ----------------------------
\* the entries the run has added to the log the caller supplied
Appended == SubSeq(messages, Len(input_messages) + 1, Len(messages))

AlertReturned == pc = "END" /\ Occurrences(steps, "send_alert") = 1

C8_LogShape ==
    pc # "START" =>
        /\ IsPrefix(input_messages, messages)
        /\ Len(Appended) = (IF SpendingWritten THEN 1 ELSE 0)
                             + (IF AlertReturned THEN 1 ELSE 0)
        /\ Len(Appended) >= 1 =>
              /\ Appended[1].role = "ai"
              /\ Appended[1].content.reply_to = "generate_summary"
        /\ Len(Appended) = 2 =>
              /\ Appended[2].role = "ai"
              /\ Appended[2].content.reply_to = "send_alert"
        /\ (pc = "END" /\ AlertSelected) => Len(Appended) = 2

C8_LogStep ==
    /\ IsPrefix(messages, messages')
    /\ (pc \in {"generate_summary", "send_alert"} /\ pc' # "FAILED") =>
          Len(messages') = Len(messages) + 1
    /\ (pc \in {"analyze_transactions", "should_send_alert"} \/ pc' = "FAILED") =>
          messages' = messages

\* C8: the log only grows during a run: the log supplied at START stays an
\* unchanged prefix, the summary step and the alert step append one entry
\* each, and when the alert is triggered the returned log ends with the
\* summary entry followed by the alert entry.
C8_AppendOnlyLog == [](C8_LogShape) /\ [][C8_LogStep]_vars

C8_Witness ==
    /\ pc = "END"
    /\ Len(input_messages) = 2
    /\ Len(messages) = 4

\* C9: a completed run has made one text-generation call per distinct
\* category, then exactly one for the summary, then one for the alert if the
\* alert was triggered, and no other call.
C9_CallCount ==
    pc = "END" =>
        LET n == Cardinality(CategoriesOf(transactions))
            a == IF Occurrences(steps, "send_alert") > 0 THEN 1 ELSE 0
        IN  /\ Len(calls) = n + 1 + a
            /\ \A i \in 1..n : calls[i].step = "analyze_transactions"
            /\ \A i, j \in 1..n : calls[i].category = calls[j].category => i = j
            /\ calls[n + 1].step = "generate_summary"
            /\ a = 1 => calls[n + 2].step = "send_alert"

C9_Witness ==
    /\ pc = "END"
    /\ Len(calls) = 4
    /\ Cardinality(CategoriesOf(transactions)) = 2

FailedCalls == {i \in 1..Len(calls) : ~calls[i].ok}

C10_Aborted ==
    /\ FailedCalls # {} <=> pc = "FAILED"
    /\ result = "raised" <=> pc = "FAILED"
    /\ result = "returned" <=> pc = "END"
    /\ pc = "FAILED" =>
          /\ FailedCalls = {Len(calls)}
          /\ Last(steps) = Last(calls).step
          /\ Last(steps) = "analyze_transactions" =>
                /\ ~InsightsWritten
                /\ insights = <<>>
                /\ messages = input_messages
          /\ Last(steps) = "generate_summary" =>
                /\ ~SpendingWritten
                /\ current_month_spending = 0
                /\ messages = input_messages
          /\ Last(steps) = "send_alert" =>
                Len(messages) = Len(input_messages) + 1

\* C10: a text-generation call that fails ends the run: the failure reaches
\* the caller, the call is not retried, no later step runs and no further call
\* is made, the failed step's update (such as the insights built so far) is
\* not merged, and the caller gets no state that reached END.
C10_FailurePropagates == [](C10_Aborted) /\ [][pc # "FAILED"]_vars

C10_Witness ==
    /\ pc = "FAILED"
    /\ steps = <<"analyze_transactions">>
    /\ Len(calls) = 2
    /\ calls[1].ok

\* C11: a run over any finite batch, the empty one included, eventually
\* reaches END and returns, provided no text-generation call fails; the
\* empty batch with a budget of 100 ends with no insight,
\* current_month_spending 0 and no alert.
C11_EmptyBatch ==
    (pc = "END" /\ transactions = <<>> /\ monthly_budget = 100 * Dollar) =>
        /\ InsightsWritten
        /\ insights = <<>>
        /\ SpendingWritten
        /\ current_month_spending = 0
        /\ Occurrences(steps, "send_alert") = 0
        /\ \A i \in 1..Len(calls) : calls[i].step # "send_alert"

C11_Terminates ==
    /\ [](C11_EmptyBatch)
    /\ <>((pc = "END" /\ result = "returned") \/ FailedCalls # {})

C11_Witness ==
    /\ pc = "END"
    /\ result = "returned"
    /\ transactions = <<>>
    /\ monthly_budget = 100 * Dollar
    /\ Len(calls) = 1

C13_WrittenOnce ==
    /\ Occurrences(steps, "analyze_transactions") <= 1
    /\ Occurrences(steps, "generate_summary") <= 1
    /\ InsightsWritten => Occurrences(steps, "analyze_transactions") = 1
    /\ SpendingWritten => Occurrences(steps, "generate_summary") = 1
    /\ pc = "END" => InsightsWritten /\ SpendingWritten

C13_Frame ==
    /\ transactions' = transactions
    /\ monthly_budget' = monthly_budget
    /\ (insights' # insights \/ InsightsWritten' # InsightsWritten) =>
          pc = "analyze_transactions"
    /\ (current_month_spending' # current_month_spending
            \/ SpendingWritten' # SpendingWritten) =>
          pc = "generate_summary"
    /\ pc = "analyze_transactions" =>
          /\ messages' = messages
          /\ current_month_spending' = current_month_spending
          /\ state_keys' \subseteq state_keys \cup {"insights"}
    /\ pc = "generate_summary" =>
          /\ insights' = insights
          /\ state_keys' \subseteq state_keys \cup {"current_month_spending"}
    /\ pc = "send_alert" =>
          UNCHANGED <<transactions, monthly_budget, insights,
                      current_month_spending, state_keys>>

\* C13: no step of a run changes transactions or monthly_budget; insights
\* is written by analyze_transactions only and once, current_month_spending
\* by generate_monthly_summary only and once; analyze_transactions leaves the
\* log and current_month_spending alone and send_spending_alert changes
\* nothing but the log.
C13_FrameEffects == [](C13_WrittenOnce) /\ [][C13_Frame]_vars

C13_Witness ==
    /\ pc = "END"
    /\ Occurrences(steps, "send_alert") = 1
    /\ Len(insights) = 2
    /\ current_month_spending > 0
    /\ Len(messages) = Len(input_messages) + 2

\* ---- the chat session -------------------------------------------------------
\* the texts of the messages of one role, in order
RECURSIVE TextsOfRole(_, _)
TextsOfRole(msgs, role) ==
    IF msgs = <<>> THEN <<>>
    ELSE (IF msgs[1].role = role THEN <<msgs[1].content>> ELSE <<>>)
             \o TextsOfRole(Tail(msgs), role)

HumanTexts(msgs) ==
    TextsOfRole([i \in 1..Len(msgs) |->
                    [role |-> msgs[i].role, content |-> msgs[i].content.text]],
                "human")

RECURSIVE WithoutSpaces(_)
WithoutSpaces(text) ==
    IF text = <<>> THEN <<>>
    ELSE (IF text[1] = " " THEN <<>> ELSE <<text[1]>>) \o WithoutSpaces(Tail(text))

\* C12: in a chat session every question starts a fresh run seeded with the
\* coach's transactions, its current budget and the growing message log: the
\* log given to the k-th run holds the messages of the runs before it and
\* ends with the new user message, so it holds the questions 1..k in order.
C12_LogCarriedForward ==
    pc = "START" =>
        /\ monthly_budget = coach_budget
        /\ messages = <<>>
        /\ insights = <<>>
        /\ input_messages # <<>>
        /\ Last(input_messages).role = "human"
        /\ HumanTexts(input_messages) = TextsOfRole(session_messages, "user")

C14_Return ==
    (pc = "END" /\ pc' = "IDLE") =>
        LET last  == messages[Len(messages)]
            alert == TotalOfAmounts(transactions)
                         > FMul(monthly_budget, AlertFraction)
        IN  /\ Len(messages) >= 3
            /\ SubSeq(messages, 1, 2) = input_messages
            /\ messages[1].role = "system"
            /\ messages[2].role = "human"
            /\ messages[3].content.reply_to = "generate_summary"
            /\ last.role = "ai"
            /\ last.content.reply_to =
                  IF alert THEN "send_alert" ELSE "generate_summary"
            /\ response'.source = last
            /\ WithoutSpaces(response'.text) = WithoutSpaces(last.content.text)
            /\ response'.text # Fallback

\* C14: the text a completed get_response returns is derived from the last
\* entry of the run's log, the alert when the sum of the amounts exceeds 0.8
\* of the budget and the summary otherwise; it is not the user's prompt and
\* not the fallback text, the log holding the system message, the prompt and
\* the summary at least.
C14_ResponseFromLastEntry == [][C14_Return]_vars

C14_Witness ==
    /\ pc = "IDLE"
    /\ response.source.role = "ai"
    /\ response.source.content.reply_to = "send_alert"
    /\ response.text # response.source.content.text
    /\ Len(session_messages) = 2

====
